---- MODULE Spec2Model ----
(***************************************************************************)
(* Prepared-statement registry, parameter binder, ticket construction,     *)
(* type mapper and GetTables query builder of the SQLite Flight SQL        *)
(* example server (sqlite_server.cc).                                      *)
(*                                                                         *)
(* The server object owns prepared_statements_, a std::map from uuid to    *)
(* std::shared_ptr<SqliteStatement>.  Every command runs on the worker the *)
(* transport gives it; the handlers take no lock.  A handler is modelled   *)
(* as a sequence of steps, one per access to shared state, so that the     *)
(* interleavings of two workers are the interleavings of these accesses.   *)
(***************************************************************************)
EXTENDS Integers, Sequences, FiniteSets, TLC

\* ------------------------------------------------------------------------
\* Bounds and input sets
\* ------------------------------------------------------------------------

\* Number of SqliteStatement objects CreatePreparedStatement may compile in a run.
MaxCreates == 1

\* Rows a parameter stream of the binder specification carries in total.
MaxRows == 2

Workers == {"w1", "w2"}

\* The worker of the single-request specification.
BindWorkers == {"w1"}

\* A uuid is 16 bytes printed as hex digits in groups separated by dashes;
\* the model keeps two hex digits (of value 0 or 10) and one dash.
Uuids == {<<0, 10>>, <<10, 0>>}

\* SQL texts a client sends with ActionCreatePreparedStatementRequest.
SqlMalformed == "SELEC"

SqlNoParam == "SELECT * FROM intTable"

SqlOneParam == "SELECT * FROM intTable WHERE value = ?"

Sqls == {SqlMalformed, SqlNoParam, SqlOneParam}

\* sqlite3_prepare_v2 as used by SqliteStatement::Create: malformed SQL is rejected.
Compiles(sql) == sql # SqlMalformed

\* SQL texts with named and numbered placeholders.
SqlNamed == "SELECT * FROM intTable WHERE value = :v"

SqlNumbered == "SELECT * FROM intTable WHERE value = ?2"

SqlTwoParams == "SELECT * FROM intTable WHERE id = ? AND value = :v"

\* SQL texts whose parameter schema is derived.
ParamSqls == {SqlNoParam, SqlOneParam, SqlNamed, SqlNumbered, SqlTwoParams}

\* An optional string: a char pointer that may be NULL, an optional field.
Absent == [has |-> FALSE, value |-> ""]

Present(str) == [has |-> TRUE, value |-> str]

\* sqlite3_bind_parameter_name(stmt, i) for every parameter index i of the
\* compiled statement: NULL for a plain "?", the token itself for ":name"
\* and "?NNN".  "?NNN" makes every index up to NNN a parameter.
ParamNames(sql) ==
    CASE sql = SqlOneParam -> <<Absent>>
      [] sql = SqlNamed -> <<Present(":v")>>
      [] sql = SqlNumbered -> <<Absent, Present("?2")>>
      [] sql = SqlTwoParams -> <<Absent, Present(":v")>>
      [] OTHER -> <<>>

\* sqlite3_bind_parameter_count of the compiled statement: the largest
\* parameter index.
NumParams(sql) == Len(ParamNames(sql))

\* ------------------------------------------------------------------------
\* Handle text: boost::uuids::to_string and boost::lexical_cast<uuid>
\* ------------------------------------------------------------------------

HexChars == {"0", "a", "A"}

HexChar(d) == IF d = 0 THEN "0" ELSE "a"

HexVal(ch) == IF ch = "0" THEN 0 ELSE 10

\* to_string prints lowercase hex digits with the dash between the groups.
UuidToString(u) == <<HexChar(u[1]), "-", HexChar(u[2])>>

\* The stream extraction behind lexical_cast accepts hex digits of either
\* case, with or without the dash; anything else (a wrong character, too few
\* or too many characters) makes lexical_cast throw bad_lexical_cast.
LexicalCast(text) ==
    LET body == IF Len(text) = 3 /\ text[2] = "-"
                THEN <<text[1], text[3]>>
                ELSE text
    IN  IF Len(body) = 2 /\ \A k \in 1..2 : body[k] \in HexChars
        THEN [ok |-> TRUE, uuid |-> <<HexVal(body[1]), HexVal(body[2])>>]
        ELSE [ok |-> FALSE, uuid |-> <<>>]

WellFormed(text) == LexicalCast(text).ok

\* Handle texts a client of the concurrent specification may send: the
\* printed form of every uuid and a text that is no uuid.
HandleTexts == { UuidToString(u) : u \in Uuids } \cup { <<"z", "z">> }

\* Handle texts of the Close requests of the single-request specification:
\* also an upper-case dashless spelling, a text that is too long and the
\* empty text.
BindTexts ==
    HandleTexts \cup { <<"A", "0">>, <<"0", "-", "a", "0">>, <<>> }

\* ------------------------------------------------------------------------
\* Status values (arrow::Status, or an exception leaving the handler)
\* ------------------------------------------------------------------------

StNone == [code |-> "none", msg |-> "", arg |-> ""]

StOK == [code |-> "OK", msg |-> "", arg |-> ""]

\* Status::Invalid("Prepared statement not found")
StNotFound == [code |-> "Invalid", msg |-> "Prepared statement not found", arg |-> ""]

\* Status::Invalid("Received unsupported data type: ", holder->type->ToString())
StUnsupported(t) ==
    [code |-> "Invalid", msg |-> "Received unsupported data type: ", arg |-> t]

\* An error Status handed up by ARROW_RETURN_NOT_OK / ARROW_ASSIGN_OR_RAISE.
StError(what) == [code |-> "Error", msg |-> what, arg |-> ""]

\* The error of column->GetScalar(i), raised by ARROW_ASSIGN_OR_RAISE.
StUnreadable == StError("GetScalar failed")

\* boost::bad_lexical_cast thrown out of the handler.
StThrown == [code |-> "thrown", msg |-> "bad_lexical_cast", arg |-> ""]

\* The worker read through an iterator of an erased map node and faulted.
StCrash == [code |-> "crash", msg |-> "invalid iterator dereferenced", arg |-> ""]

IsNotFound(st) == st = StNotFound

Returned(st) == st.code \in {"OK", "Invalid", "Error"}

\* ------------------------------------------------------------------------
\* Parameter cells and the bind calls of DoPutPreparedStatement
\* ------------------------------------------------------------------------

\* Arrow type names as DataType::ToString prints them.
CellInt64 == [type |-> "int64", value |-> <<7>>]

CellFloat == [type |-> "float", value |-> <<2>>]

CellDouble == [type |-> "double", value |-> <<3>>]

CellString == [type |-> "string", value |-> <<97, 98>>]

CellStringNul == [type |-> "string", value |-> <<97, 0, 98>>]

CellBinary == [type |-> "binary", value |-> <<1, 0, 2>>]

CellBool == [type |-> "bool", value |-> <<1>>]

CellInt32 == [type |-> "int32", value |-> <<5>>]

CellList == [type |-> "list<item: string>", value |-> <<>>]

CellMap == [type |-> "map<int32, list<item: int32>>", value |-> <<>>]

AllCells ==
    { CellInt64, CellFloat, CellDouble, CellString, CellStringNul, CellBinary,
      CellBool, CellInt32, CellList, CellMap }

\* The variants the binder is specified to reject.
RejectedTypes == {"bool", "int32", "list<item: string>", "map<int32, list<item: int32>>"}

\* The types the binder is specified to accept.
AcceptedTypes == {"string", "int64", "double", "binary"}

\* strlen of the c_str(): the bytes before the first NUL.
StrLen(bytes) ==
    IF \E k \in 1..Len(bytes) : bytes[k] = 0
    THEN (CHOOSE k \in 1..Len(bytes) :
              bytes[k] = 0 /\ \A j \in 1..(k - 1) : bytes[j] # 0) - 1
    ELSE Len(bytes)

NoCall == [fn |-> "", pos |-> 0, value |-> <<>>, len |-> 0, lifetime |-> "", rc |-> ""]

\* The return code of a sqlite3_bind_* call: positions are 1..parameter count.
BindRc(pos, nparams) == IF pos >= 1 /\ pos <= nparams THEN "SQLITE_OK" ELSE "SQLITE_RANGE"

\* A variant that binds at the column index itself.
BindPositionZeroBased(c) == c

\* The 1-based placeholder position a cell of column c (0-based) is bound to.
BindPosition(c) == c + 1

\* A variant whose switch lets bool through and binds it as an integer.
HandledTypesWithBool == {"int64", "float", "string", "binary", "bool"}

\* The type ids the switch of the binder has a case for: Type::INT64,
\* Type::FLOAT (the 32-bit float), Type::STRING and Type::BINARY.
HandledTypes == {"int64", "float", "string", "binary"}

\* switch (holder->type->id()): the native bind call issued for one cell of
\* column c on a statement with nparams placeholders; fn = "" when the switch
\* takes the default branch.
SwitchBind(cell, c, nparams) ==
    LET pos == BindPosition(c)
        rc == BindRc(pos, nparams)
    IN  IF cell.type \notin HandledTypes THEN NoCall
        ELSE IF cell.type = "float"
        THEN [fn |-> "sqlite3_bind_double", pos |-> pos, value |-> cell.value,
              len |-> 0, lifetime |-> "", rc |-> rc]
        ELSE IF cell.type = "string"
        THEN [fn |-> "sqlite3_bind_text", pos |-> pos,
              value |-> SubSeq(cell.value, 1, StrLen(cell.value)),
              len |-> StrLen(cell.value), lifetime |-> "SQLITE_TRANSIENT", rc |-> rc]
        ELSE IF cell.type = "binary"
        THEN [fn |-> "sqlite3_bind_blob", pos |-> pos, value |-> cell.value,
              len |-> Len(cell.value), lifetime |-> "SQLITE_TRANSIENT", rc |-> rc]
        ELSE [fn |-> "sqlite3_bind_int64", pos |-> pos, value |-> cell.value,
              len |-> 0, lifetime |-> "", rc |-> rc]

\* ------------------------------------------------------------------------
\* Parameter streams (the FlightMessageReader of a DoPut)
\* ------------------------------------------------------------------------

\* A batch is a sequence of rows and a row a sequence of cells.  A stream is
\* the batches reader->Next hands out, followed by an absent batch (fail =
\* FALSE) or by an error Status of the reader (fail = TRUE).

\* Batches a stream is split into, at most.
MaxBatches == 3

OrderCells1 == {CellInt64, CellString, CellBool}

OrderCells2 == {CellInt64, CellString}

RowSet == [1..1 -> OrderCells1] \cup [1..2 -> OrderCells2]

\* Row sequences in which every row has the same number of columns.
FlatRows ==
    UNION { { rs \in [1..k -> RowSet] : \A a, b \in 1..k : Len(rs[a]) = Len(rs[b]) }
            : k \in 0..MaxRows }

RECURSIVE SumSeq(_)
SumSeq(s) == IF s = <<>> THEN 0 ELSE s[1] + SumSeq(Tail(s))

\* The ways to cut n rows into at most MaxBatches consecutive batches, a
\* batch of zero rows allowed.
SizesFor(n) ==
    UNION { { sz \in [1..k -> 0..n] : SumSeq(sz) = n } : k \in 0..MaxBatches }

RECURSIVE Split(_, _)
Split(rows, sizes) ==
    IF sizes = <<>> THEN <<>>
    ELSE <<SubSeq(rows, 1, sizes[1])>>
         \o Split(SubSeq(rows, sizes[1] + 1, Len(rows)), Tail(sizes))

\* Streams of the binder specification: every split of every row sequence,
\* and one single-cell stream per cell type.
BindStreams ==
    UNION { { [batches |-> Split(rs, sz), fail |-> f] :
                  sz \in SizesFor(Len(rs)), f \in BOOLEAN } : rs \in FlatRows }

TypeStreams == { [batches |-> << << <<cell>> >> >>, fail |-> FALSE] : cell \in AllCells }

\* Streams of the concurrent specification.
SmallStreams ==
    { [batches |-> <<>>, fail |-> FALSE],
      [batches |-> << << <<CellInt64>> >> >>, fail |-> FALSE] }

\* ------------------------------------------------------------------------
\* Commands, tickets and replies
\* ------------------------------------------------------------------------

EmptyFields == [n \in {} |-> <<>>]

\* A protobuf message: its type and, for every field that is set, the
\* field's payload (one element for a scalar field, one per entry for a
\* repeated field).
NoMsg == [type |-> "", f |-> EmptyFields]

Msg(type) == [type |-> type, f |-> EmptyFields]

\* set_<name>(value), add_<name>(value)...
WithField(msg, name, payload) ==
    [msg EXCEPT !.f = [n \in (DOMAIN msg.f) \cup {name} |->
                           IF n = name THEN payload ELSE msg.f[n]]]

\* Setting an optional field only when the request carries it.
WithOptional(msg, name, opt) ==
    IF opt.has THEN WithField(msg, name, <<opt.value>>) ELSE msg

\* The fields of the messages, in the order they are written to the wire.
FieldOrder ==
    <<"query", "statement_handle", "prepared_statement_handle", "catalog", "schema",
      "schema_filter_pattern", "table", "table_name_filter_pattern", "table_types",
      "include_schema", "record_count">>

\* SerializeAsString: the fields that are set, each as a (name, payload)
\* entry; a field that is not set takes no room on the wire.
Serialize(msg) ==
    LET present == SelectSeq(FieldOrder, LAMBDA n : n \in DOMAIN msg.f)
    IN  [k \in 1..Len(present) |-> <<present[k], msg.f[present[k]]>>]

\* ParseFromString for a message of the given type.
Parse(type, bytes) ==
    [type |-> type,
     f |-> [n \in { bytes[k][1] : k \in 1..Len(bytes) } |->
                bytes[CHOOSE k \in 1..Len(bytes) : bytes[k][1] = n][2]]]

NoAny == [type_url |-> "", value |-> <<>>]

\* A variant that leaves the name of the type out.
PackFromUntyped(msg) == [type_url |-> "", value |-> Serialize(msg)]

\* google::protobuf::Any::PackFrom: the type name and the serialized message.
PackFrom(msg) == [type_url |-> msg.type, value |-> Serialize(msg)]

\* Any::UnpackTo, as the dispatcher of the server base class applies it.
Unpack(any) == Parse(any.type_url, any.value)

\* A variant that packs a message of the command's type without its fields.
TicketOfMarker(command) == PackFrom(Msg(command.type))

\* The ticket GetFlightInfoForCommand puts into the only endpoint.
TicketOf(command) == PackFrom(command)

CommandStatementQuery(sql) == WithField(Msg("CommandStatementQuery"), "query", <<sql>>)

CommandStatementUpdate(sql) == WithField(Msg("CommandStatementUpdate"), "query", <<sql>>)

\* ticket_statement_query.set_statement_handle(query)
TicketStatementQuery(query) ==
    WithField(Msg("TicketStatementQuery"), "statement_handle", <<query>>)

CommandPreparedStatementQuery(text) ==
    WithField(Msg("CommandPreparedStatementQuery"), "prepared_statement_handle", text)

\* A variant that forgets result.set_record_count(record_count).
DoPutUpdateResultUnset(n) == Msg("DoPutUpdateResult")

\* result.set_record_count(record_count): a scalar field holding its default
\* value (0) is not written to the wire.
DoPutUpdateResult(n) ==
    IF n = 0 THEN Msg("DoPutUpdateResult")
    ELSE WithField(Msg("DoPutUpdateResult"), "record_count", <<n>>)

\* result.record_count() of a parsed DoPutUpdateResult.
RecordCountOf(bytes) ==
    LET m == Parse("DoPutUpdateResult", bytes)
    IN  IF "record_count" \in DOMAIN m.f THEN m.f["record_count"][1] ELSE 0

\* Filter values of the metadata requests.
Catalogs == {Absent, Present("c"), Present("")}

SchemaPatterns == {Absent, Present("%")}

TablePatterns == {Absent, Present("int%")}

TableTypeLists ==
    {<<>>, <<"table">>, <<"table", "view">>, <<"view", "table">>, <<"table", "table">>}

Tables == {"intTable", "foreignTable"}

CommandGetSchemas(catalog, schema_pattern) ==
    WithOptional(WithOptional(Msg("CommandGetSchemas"), "catalog", catalog),
                 "schema_filter_pattern", schema_pattern)

CommandGetTables(catalog, schema_pattern, table_pattern, types, include_schema) ==
    LET m1 == WithOptional(Msg("CommandGetTables"), "catalog", catalog)
        m2 == WithOptional(m1, "schema_filter_pattern", schema_pattern)
        m3 == WithOptional(m2, "table_name_filter_pattern", table_pattern)
        m4 == IF types = <<>> THEN m3 ELSE WithField(m3, "table_types", types)
    IN  IF include_schema THEN WithField(m4, "include_schema", <<"true">>) ELSE m4

\* CommandGetPrimaryKeys, CommandGetImportedKeys and CommandGetExportedKeys.
CommandGetKeys(type, catalog, schema, table) ==
    WithField(WithOptional(WithOptional(Msg(type), "catalog", catalog), "schema", schema),
              "table", <<table>>)

GetSchemasCommands ==
    { CommandGetSchemas(c, s) : c \in Catalogs, s \in SchemaPatterns }

GetTablesCommands ==
    { CommandGetTables(c, s, t, ty, inc) :
          c \in Catalogs, s \in SchemaPatterns, t \in TablePatterns,
          ty \in TableTypeLists, inc \in BOOLEAN }

KeysCommands(type) ==
    { CommandGetKeys(type, c, s, t) :
          c \in {Absent, Present("c")}, s \in {Absent, Present("main")}, t \in Tables }

\* What a command hands back besides its Status: the ticket of the
\* FlightInfo, the messages written to the FlightMetadataWriter, the
\* parameter schema of a prepared statement, the SQL text it had compiled
\* and, for the type mapper, the data type.
NoReply ==
    [ticket |-> NoAny, metadata |-> <<>>, parameter_schema |-> <<>>, sql |-> "",
     type |-> ""]

\* ------------------------------------------------------------------------
\* GetArrowType
\* ------------------------------------------------------------------------

UpperCase ==
    <<"A", "B", "C", "D", "E", "F", "G", "H", "I", "J", "K", "L", "M",
      "N", "O", "P", "Q", "R", "S", "T", "U", "V", "W", "X", "Y", "Z">>

LowerCase ==
    <<"a", "b", "c", "d", "e", "f", "g", "h", "i", "j", "k", "l", "m",
      "n", "o", "p", "q", "r", "s", "t", "u", "v", "w", "x", "y", "z">>

\* std::tolower in the classic locale.
ToLower(ch) ==
    IF \E k \in 1..26 : UpperCase[k] = ch
    THEN LowerCase[CHOOSE k \in 1..26 : UpperCase[k] = ch]
    ELSE ch

\* A variant of the comparison that takes the case of the letters into account.
IEqualsCaseSensitive(input, test) == input = test

\* boost::iequals
IEquals(input, test) ==
    /\ Len(input) = Len(test)
    /\ \A k \in 1..Len(test) : ToLower(input[k]) = ToLower(test[k])

\* boost::istarts_with
IStartsWith(input, test) ==
    /\ Len(input) >= Len(test)
    /\ \A k \in 1..Len(test) : ToLower(input[k]) = ToLower(test[k])

\* A type name is a sequence of characters; the pointer may be NULL.
NullName == [has |-> FALSE, value |-> <<>>]

Name(chars) == [has |-> TRUE, value |-> chars]

GetArrowType(sqlite_type) ==
    IF ~sqlite_type.has THEN "null"
    ELSE LET t == sqlite_type.value
         IN  IF IEquals(t, <<"i", "n", "t">>)
                \/ IEquals(t, <<"i", "n", "t", "e", "g", "e", "r">>)
             THEN "int64"
             ELSE IF IEquals(t, <<"R", "E", "A", "L">>) THEN "float64"
             ELSE IF IEquals(t, <<"B", "L", "O", "B">>) THEN "binary"
             ELSE IF \/ IEquals(t, <<"T", "E", "X", "T">>)
                     \/ IStartsWith(t, <<"c", "h", "a", "r">>)
                     \/ IStartsWith(t, <<"v", "a", "r", "c", "h", "a", "r">>)
             THEN "utf8"
             ELSE "null"

\* Declared column types the engine reports.
TypeNames ==
    { <<"i", "n", "t">>, <<"I", "N", "T">>, <<"I", "n", "t">>,
      <<"i", "n", "t", "e", "g", "e", "r">>, <<"I", "N", "T", "E", "G", "E", "R">>,
      <<"i", "n", "t", "e", "g", "e", "r", "s">>, <<"i", "n", "t", "e">>,
      <<"b", "i", "g", "i", "n", "t">>, <<"i", "n", "t", "(", "8", ")">>,
      <<"r", "e", "a", "l">>, <<"R", "E", "A", "L">>, <<"R", "e", "a", "l">>,
      <<"r", "e", "a", "l", "s">>, <<"d", "o", "u", "b", "l", "e">>,
      <<"b", "l", "o", "b">>, <<"B", "L", "O", "B">>, <<"B", "l", "O", "b">>,
      <<"t", "e", "x", "t">>, <<"T", "E", "X", "T">>, <<"t", "E", "x", "T">>,
      <<"t", "e", "x", "t", "s">>, <<"t", "e", "x">>,
      <<"c", "h", "a", "r">>, <<"C", "H", "A", "R">>, <<"c", "h", "a">>,
      <<"c", "h", "a", "r", "(", "1", "0", ")">>,
      <<"C", "h", "a", "r", "a", "c", "t", "e", "r">>,
      <<"v", "a", "r", "c", "h", "a", "r">>, <<"V", "A", "R", "C", "H", "A", "R">>,
      <<"V", "a", "r", "C", "h", "a", "r", "(", "2", "0", ")">>,
      <<"v", "a", "r", "c", "h", "a">>, <<"n", "c", "h", "a", "r">>,
      <<"u", "n", "k", "n", "o", "w", "n", "_", "x", "y", "z">>,
      <<"d", "a", "t", "e">>, <<>> }

SqliteTypes == {NullName} \cup { Name(chars) : chars \in TypeNames }

\* ------------------------------------------------------------------------
\* PrepareQueryForGetTables
\* ------------------------------------------------------------------------

TablesBaseQuery ==
    "SELECT null as catalog_name, null as schema_name, name as table_name, type as table_type FROM sqlite_master where 1=1"

RECURSIVE TableTypesLoopTrailingComma(_, _, _)
\* A variant of the loop that writes the comma after every type.
TableTypesLoopTrailingComma(types, i, size) ==
    IF i >= size THEN <<>>
    ELSE <<"'", types[i + 1], "'", ",">> \o TableTypesLoopTrailingComma(types, i + 1, size)

RECURSIVE TableTypesLoop(_, _, _)
\* for (int i = 0; i < size; i++): the quoted type and, unless it is the
\* last one, a comma.
TableTypesLoop(types, i, size) ==
    IF i >= size THEN <<>>
    ELSE <<"'", types[i + 1], "'">>
         \o (IF size - 1 # i THEN <<",">> ELSE <<>>)
         \o TableTypesLoop(types, i + 1, size)

\* if (!command.table_types().empty()) { ... }
TableTypesPieces(types) ==
    IF types = <<>> THEN <<>>
    ELSE <<" and table_type IN (">> \o TableTypesLoop(types, 0, Len(types)) \o <<")">>

\* The operands of the << operators the function applies to the string
\* stream, in order.
TablesQueryPieces(command) ==
    LET f == command.f
    IN  <<TablesBaseQuery>>
        \o (IF "catalog" \in DOMAIN f
            THEN <<" and catalog_name='", f["catalog"][1], "'">> ELSE <<>>)
        \o (IF "schema_filter_pattern" \in DOMAIN f
            THEN <<" and schema_name LIKE '", f["schema_filter_pattern"][1], "'">>
            ELSE <<>>)
        \o (IF "table_name_filter_pattern" \in DOMAIN f
            THEN <<" and table_name LIKE '", f["table_name_filter_pattern"][1], "'">>
            ELSE <<>>)
        \o TableTypesPieces(IF "table_types" \in DOMAIN f THEN f["table_types"] ELSE <<>>)
        \o <<" order by table_name">>

RECURSIVE JoinText(_)
\* std::stringstream::str(): the pieces one after the other.
JoinText(pieces) == IF pieces = <<>> THEN "" ELSE pieces[1] \o JoinText(Tail(pieces))

PrepareQueryForGetTables(command) == JoinText(TablesQueryPieces(command))

\* ------------------------------------------------------------------------
\* Parameter schema and bound values
\* ------------------------------------------------------------------------

\* GetUnknownColumnDataType(): the dense union of the types a value may have.
UnknownColumnDataType == "dense_union<string, bytes, int64, float64>"

\* A variant that names a nameless parameter by its 0-based index.
ParameterNameZeroBased(name, i) ==
    IF ~name.has THEN "parameter_" \o ToString(i) ELSE name.value

\* The name of the field of parameter i + 1: the engine's name of the
\* parameter, or parameter_<i + 1> when the engine has none.
ParameterName(name, i) ==
    IF ~name.has THEN "parameter_" \o ToString(i + 1) ELSE name.value

\* for (int i = 0; i < parameter_count; i++) parameter_fields.push_back(...)
ParameterFields(sql) ==
    [k \in 1..NumParams(sql) |->
        [name |-> ParameterName(ParamNames(sql)[k], k - 1),
         type |-> UnknownColumnDataType]]

\* A parameter nothing has been bound to is NULL.
NoValue == [set |-> FALSE, value |-> <<>>]

\* The bindings of a freshly compiled statement.
NoBindings(sql) == [p \in 1..NumParams(sql) |-> NoValue]

\* The effect of one engine call on the bindings of a statement: a
\* sqlite3_bind_* call the engine accepts replaces the value of its
\* parameter, a rejected one changes nothing, sqlite3_clear_bindings makes
\* every parameter NULL again.
Bind(bindings, call) ==
    IF call.fn = "sqlite3_clear_bindings"
    THEN [p \in DOMAIN bindings |-> NoValue]
    ELSE IF call.rc = "SQLITE_OK" /\ call.pos \in DOMAIN bindings
    THEN [bindings EXCEPT ![call.pos] = [set |-> TRUE, value |-> call.value]]
    ELSE bindings

RECURSIVE BindAll(_, _)
\* The bindings of a statement after a sequence of engine calls.
BindAll(bindings, cs) ==
    IF cs = <<>> THEN bindings ELSE BindAll(Bind(bindings, cs[1]), Tail(cs))

\* ------------------------------------------------------------------------
\* State
\* ------------------------------------------------------------------------

VARIABLES
    prepared_statements_,  \* the registry: uuid -> statement object (std::map)
    statements,            \* statements[s]: the SQL statement object s was compiled from
    released,              \* statement objects whose last shared_ptr is gone (finalized)
    handles,               \* every uuid the generator has produced, with its statement
    issued,                \* uuids returned to a client by a successful Create
    closedOk,              \* uuids for which a Close has returned OK
    pc,                    \* pc[w]: position of worker w inside its handler
    cmd,                   \* cmd[w]: the command worker w is handling or handled last
    search,                \* search[w]: the map iterator a handler holds
    statement,             \* statement[w]: the handler's local shared_ptr
    status,                \* status[w]: how the last command of w ended
    result,                \* result[w]: handle text returned by Create
    reply,                 \* reply[w]: what else the command of w hands back
    calls,                 \* calls[w]: calls the command of w issued on its compiled statement
    loop,                  \* loop[w]: chunk, row and column of the binding loops
    stream                 \* stream[w]: the result stream a DoGet of w handed out

vars ==
    << prepared_statements_, statements, released, handles, issued, closedOk, pc, cmd,
       search, statement, status, result, reply, calls, loop, stream >>

registryVars == << prepared_statements_, statements, released, handles, issued, closedOk >>

NoStmt == [stmt |-> 0, counted |-> FALSE]

NoSearch == [found |-> FALSE, uuid |-> <<>>, stmt |-> 0]

NoLoop == [b |-> 0, i |-> 0, c |-> 0]

NoStream == [batches |-> <<>>, fail |-> FALSE]

NoCmd ==
    [op |-> "", text |-> <<>>, sql |-> "", uuid |-> <<>>, input |-> NoStream,
     closedBefore |-> FALSE, issuedBefore |-> FALSE, command |-> NoMsg,
     sqlite_type |-> NullName]

EmptyMap == [u \in {} |-> 0]

\* prepared_statements_[uuid] = statement
MapInsert(m, k, v) == [x \in (DOMAIN m) \cup {k} |-> IF x = k THEN v ELSE m[x]]

\* A variant of erase that leaves the node in the map.
MapEraseKeeps(m, k) == m

\* A variant of erase that empties the map.
MapEraseAll(m, k) == EmptyMap

\* prepared_statements_.erase(uuid): erase by key, a no-op for an absent key.
MapErase(m, k) == [x \in (DOMAIN m) \ {k} |-> m[x]]

\* Owners of statement object s: the map node, the handlers' local
\* shared_ptr copies and the readers inside result streams.
RefCount(s) ==
    (IF \E u \in DOMAIN prepared_statements_ : prepared_statements_[u] = s THEN 1 ELSE 0)
    + Cardinality({ w \in Workers : statement[w] = [stmt |-> s, counted |-> TRUE] })
    + Cardinality({ w \in Workers : stream[w] = [stmt |-> s, counted |-> TRUE] })

\* A variant in which giving up any reference finalizes the statement.
ReleasedAfterDropEager(ref) == IF ref.stmt = 0 THEN released ELSE released \cup {ref.stmt}

\* ~shared_ptr: the statement is finalized when its last owner lets go.  A
\* pointer read from freed memory (counted = FALSE) owns nothing.
ReleasedAfterDrop(ref) ==
    IF ref.counted /\ RefCount(ref.stmt) = 1 THEN released \cup {ref.stmt} ELSE released

Init ==
    /\ prepared_statements_ = EmptyMap
    /\ statements = <<>>
    /\ released = {}
    /\ handles = {}
    /\ issued = {}
    /\ closedOk = {}
    /\ pc = [w \in Workers |-> "idle"]
    /\ cmd = [w \in Workers |-> NoCmd]
    /\ search = [w \in Workers |-> NoSearch]
    /\ statement = [w \in Workers |-> NoStmt]
    /\ status = [w \in Workers |-> StNone]
    /\ result = [w \in Workers |-> <<>>]
    /\ reply = [w \in Workers |-> NoReply]
    /\ calls = [w \in Workers |-> <<>>]
    /\ loop = [w \in Workers |-> NoLoop]
    /\ stream = [w \in Workers |-> NoStmt]

\* A handler returns (or throws): its locals go out of scope.
Finish(w, st) ==
    /\ pc' = [pc EXCEPT ![w] = "done"]
    /\ status' = [status EXCEPT ![w] = st]
    /\ search' = [search EXCEPT ![w] = NoSearch]
    /\ statement' = [statement EXCEPT ![w] = NoStmt]
    /\ loop' = [loop EXCEPT ![w] = NoLoop]

\* The command record of a request naming a handle.
HandleCmd(op, text, input) ==
    LET lc == LexicalCast(text)
    IN  [op |-> op, text |-> text, sql |-> "", uuid |-> lc.uuid, input |-> input,
         closedBefore |-> lc.ok /\ lc.uuid \in closedOk,
         issuedBefore |-> lc.ok /\ lc.uuid \in issued,
         command |-> IF op = "Close"
                     THEN WithField(Msg("ActionClosePreparedStatementRequest"),
                                    "prepared_statement_handle", text)
                     ELSE CommandPreparedStatementQuery(text),
         sqlite_type |-> NullName]

\* ------------------------------------------------------------------------
\* Steps shared by the handlers
\* ------------------------------------------------------------------------

\* A request arrives at an idle worker.
Accept(w, c) ==
    /\ pc[w] = "idle"
    /\ cmd' = [cmd EXCEPT ![w] = c]
    /\ result' = [result EXCEPT ![w] = <<>>]

\* The request of a handler that runs in several steps.
Begin(w, c) ==
    /\ Accept(w, c)
    /\ calls' = [calls EXCEPT ![w] = <<>>]
    /\ reply' = [reply EXCEPT ![w] = NoReply]

\* The transport has delivered the outcome; the worker is free again.
Return(w) ==
    /\ pc[w] = "done"
    /\ pc' = [pc EXCEPT ![w] = "idle"]
    /\ cmd' = [cmd EXCEPT ![w] = NoCmd]
    /\ status' = [status EXCEPT ![w] = StNone]
    /\ result' = [result EXCEPT ![w] = <<>>]
    /\ reply' = [reply EXCEPT ![w] = NoReply]
    /\ calls' = [calls EXCEPT ![w] = <<>>]
    /\ UNCHANGED << registryVars, search, statement, loop, stream >>

\* lexical_cast, prepared_statements_.find(uuid) and the test against end():
\* a text that is no uuid throws, an absent key returns "not found", a
\* present key leaves the handler holding the iterator.
Lookup(w, c, next) ==
    /\ Begin(w, c)
    /\ IF ~WellFormed(c.text)
       THEN Finish(w, StThrown)
       ELSE IF c.uuid \notin DOMAIN prepared_statements_
       THEN Finish(w, StNotFound)
       ELSE /\ pc' = [pc EXCEPT ![w] = next]
            /\ search' = [search EXCEPT ![w] =
                   [found |-> TRUE, uuid |-> c.uuid, stmt |-> prepared_statements_[c.uuid]]]
            /\ status' = [status EXCEPT ![w] = StNone]
            /\ UNCHANGED << statement, loop >>
    /\ UNCHANGED << registryVars, stream >>

\* std::shared_ptr<SqliteStatement> statement = search->second.  When another
\* worker has erased the node since the find, the iterator is invalid and the
\* read is undefined: it either still sees the bytes of the freed node (the
\* copy owns the statement only if the statement is still alive) or faults.
Deref(w, from, next) ==
    /\ pc[w] = from
    /\ IF search[w].uuid \in DOMAIN prepared_statements_
       THEN /\ statement' = [statement EXCEPT ![w] =
                   [stmt |-> prepared_statements_[search[w].uuid], counted |-> TRUE]]
            /\ pc' = [pc EXCEPT ![w] = next]
            /\ UNCHANGED status
       ELSE \E outcome \in {"stale", "fault"} :
                IF outcome = "stale"
                THEN /\ statement' = [statement EXCEPT ![w] =
                            [stmt |-> search[w].stmt,
                             counted |-> search[w].stmt \notin released]]
                     /\ pc' = [pc EXCEPT ![w] = next]
                     /\ UNCHANGED status
                ELSE /\ pc' = [pc EXCEPT ![w] = "crashed"]
                     /\ status' = [status EXCEPT ![w] = StCrash]
                     /\ UNCHANGED statement
    /\ UNCHANGED << registryVars, cmd, search, result, reply, calls, loop, stream >>

\* ------------------------------------------------------------------------
\* CreatePreparedStatement
\* ------------------------------------------------------------------------

\* SqliteStatement::Create, uuid_generator_() and the insertion into the map.
\* The generator draws 128 random bits: it is taken never to repeat a value.
CreateCompile(w, sql, cap) ==
    IF ~Compiles(sql)
    THEN /\ Begin(w, [NoCmd EXCEPT !.op = "Create", !.sql = sql])
         /\ Finish(w, StError("sqlite3_prepare_v2 failed"))
         /\ UNCHANGED << registryVars, stream >>
    ELSE /\ Len(statements) < cap
         /\ \E u \in Uuids \ { h.uuid : h \in handles } :
                LET s == Len(statements) + 1
                IN  /\ Begin(w, [NoCmd EXCEPT !.op = "Create", !.sql = sql, !.uuid = u])
                    /\ statements' = Append(statements, sql)
                    /\ prepared_statements_' = MapInsert(prepared_statements_, u, s)
                    /\ handles' = handles \cup {[uuid |-> u, stmt |-> s]}
                    /\ statement' = [statement EXCEPT ![w] =
                           [stmt |-> s, counted |-> TRUE]]
         /\ pc' = [pc EXCEPT ![w] = "create_schema"]
         /\ status' = [status EXCEPT ![w] = StNone]
         /\ UNCHANGED << released, issued, closedOk, search, loop, stream >>

\* GetSchema, SerializeSchema, the parameter schema and the result: each of
\* the fallible calls returns its error to the caller as it is.
CreateFinish(w) ==
    /\ pc[w] = "create_schema"
    /\ \E outcome \in {"ok", "GetSchema failed", "SerializeSchema failed"} :
           /\ released' = ReleasedAfterDrop(statement[w])
           /\ IF outcome = "ok"
              THEN /\ issued' = issued \cup {cmd[w].uuid}
                   /\ result' = [result EXCEPT ![w] = UuidToString(cmd[w].uuid)]
                   /\ reply' = [reply EXCEPT ![w].parameter_schema =
                                    ParameterFields(cmd[w].sql)]
                   /\ Finish(w, StOK)
              ELSE /\ UNCHANGED << issued, result, reply >>
                   /\ Finish(w, StError(outcome))
    /\ UNCHANGED << prepared_statements_, statements, handles, closedOk, cmd, calls, stream >>

\* ------------------------------------------------------------------------
\* ClosePreparedStatement
\* ------------------------------------------------------------------------

CloseLookup(w, text) == Lookup(w, HandleCmd("Close", text, NoStream), "close_erase")

\* prepared_statements_.erase(uuid), the empty result stream and Status::OK().
CloseErase(w) ==
    /\ pc[w] = "close_erase"
    /\ LET u == search[w].uuid
       IN  /\ prepared_statements_' = MapErase(prepared_statements_, u)
           /\ released' = IF u \in DOMAIN prepared_statements_
                          THEN ReleasedAfterDrop(
                                   [stmt |-> prepared_statements_[u], counted |-> TRUE])
                          ELSE released
           /\ closedOk' = closedOk \cup {u}
    /\ Finish(w, StOK)
    /\ UNCHANGED << statements, handles, issued, cmd, result, reply, calls, stream >>

\* ------------------------------------------------------------------------
\* GetFlightInfoPreparedStatement
\* ------------------------------------------------------------------------

GetFlightInfoLookup(w, text) ==
    Lookup(w, HandleCmd("GetFlightInfo", text, NoStream), "info_deref")

GetFlightInfoDeref(w) == Deref(w, "info_deref", "info_schema")

\* statement->GetSchema and GetFlightInfoForCommand.
GetFlightInfoFinish(w) ==
    /\ pc[w] = "info_schema"
    /\ released' = ReleasedAfterDrop(statement[w])
    /\ \E outcome \in {"ok", "GetSchema failed"} :
           IF outcome = "ok"
           THEN /\ reply' = [reply EXCEPT ![w].ticket = TicketOf(cmd[w].command)]
                /\ Finish(w, StOK)
           ELSE /\ UNCHANGED reply
                /\ Finish(w, StError(outcome))
    /\ UNCHANGED << prepared_statements_, statements, handles, issued, closedOk, cmd,
                    result, calls, stream >>

\* ------------------------------------------------------------------------
\* DoGetPreparedStatement
\* ------------------------------------------------------------------------

\* A worker's client reads one result stream at a time.
DoGetLookup(w, text) ==
    /\ stream[w] = NoStmt
    /\ Lookup(w, HandleCmd("DoGet", text, NoStream), "get_deref")

DoGetDeref(w) == Deref(w, "get_deref", "get_reader")

\* SqliteStatementBatchReader::Create(statement, &reader); the reader keeps
\* the shared_ptr it was given and the RecordBatchStream keeps the reader.
DoGetReader(w) ==
    /\ pc[w] = "get_reader"
    /\ \E outcome \in {"ok", "SqliteStatementBatchReader::Create failed"} :
           IF outcome = "ok"
           THEN /\ stream' = [stream EXCEPT ![w] = statement[w]]
                /\ UNCHANGED released
                /\ Finish(w, StOK)
           ELSE /\ released' = ReleasedAfterDrop(statement[w])
                /\ UNCHANGED stream
                /\ Finish(w, StError(outcome))
    /\ UNCHANGED << prepared_statements_, statements, handles, issued, closedOk, cmd,
                    result, reply, calls >>

\* The transport has sent the stream (or the client gave up) and destroys it.
StreamFinish(w) ==
    /\ stream[w] # NoStmt
    /\ released' = ReleasedAfterDrop(stream[w])
    /\ stream' = [stream EXCEPT ![w] = NoStmt]
    /\ UNCHANGED << prepared_statements_, statements, handles, issued, closedOk, pc, cmd,
                    search, statement, status, result, reply, calls, loop >>

\* ------------------------------------------------------------------------
\* DoPutPreparedStatement
\* ------------------------------------------------------------------------

DoPutLookup(w, text, input) == Lookup(w, HandleCmd("DoPut", text, input), "put_deref")

DoPutDeref(w) == Deref(w, "put_deref", "put_next")

\* A variant that steps the statement once the parameters are bound.
CallsAtEndOfInputExecuting(cs) ==
    Append(cs, [fn |-> "sqlite3_step", pos |-> 0, value |-> <<>>, len |-> 0,
                lifetime |-> "", rc |-> "SQLITE_DONE"])

\* The engine calls issued when the reader reports the end of the input:
\* the loop is left and Status::OK() returned, nothing is executed.
CallsAtEndOfInput(cs) == cs

\* A variant that clears the bindings of the statement before an error is
\* returned.
CallsOnErrorClearing(cs) ==
    Append(cs, [fn |-> "sqlite3_clear_bindings", pos |-> 0, value |-> <<>>, len |-> 0,
                lifetime |-> "", rc |-> "SQLITE_OK"])

\* The engine calls issued when the binding loop is left with an error
\* (ARROW_RETURN_NOT_OK, return Status::Invalid): the handler returns at
\* once, nothing is reset or cleared.
CallsOnError(cs) == cs

\* A variant in which a batch without rows ends the input as well.
EndOfInputOnEmptyBatch(batches, b) == b > Len(batches) \/ Len(batches[b]) = 0

\* if (record_batch == nullptr) break;  for the b-th batch the reader hands
\* out: only the absent batch after the last one ends the loop.
EndOfInput(batches, b) == b > Len(batches)

\* reader->Next(&chunk): an error of the reader is returned; an absent batch
\* ends the loop; any other batch is walked row by row, a batch without rows
\* or columns contributing no cell.
DoPutNext(w) ==
    /\ pc[w] = "put_next"
    /\ LET input == cmd[w].input
           b == loop[w].b + 1
       IN  IF b > Len(input.batches) /\ input.fail
           THEN /\ released' = ReleasedAfterDrop(statement[w])
                /\ Finish(w, StError("reader->Next failed"))
                /\ calls' = [calls EXCEPT ![w] = CallsOnError(calls[w])]
           ELSE IF EndOfInput(input.batches, b)
           THEN /\ released' = ReleasedAfterDrop(statement[w])
                /\ Finish(w, StOK)
                /\ calls' = [calls EXCEPT ![w] = CallsAtEndOfInput(calls[w])]
           ELSE /\ loop' = [loop EXCEPT ![w] = [b |-> b, i |-> 0, c |-> 0]]
                /\ pc' = [pc EXCEPT ![w] =
                       IF Len(input.batches[b]) = 0 \/ Len(input.batches[b][1]) = 0
                       THEN "put_next" ELSE "put_bind"]
                /\ UNCHANGED << released, calls, search, statement, status >>
    /\ UNCHANGED << prepared_statements_, statements, handles, issued, closedOk, cmd,
                    result, reply, stream >>

\* One pass of the inner loop: column c of row i of the current batch is
\* read (the error of a cell that cannot be read is returned) and bound, or
\* the command ends with the "unsupported data type" status.
DoPutBind(w) ==
    /\ pc[w] = "put_bind"
    /\ LET batch == cmd[w].input.batches[loop[w].b]
           i == loop[w].i
           c == loop[w].c
           cell == batch[i + 1][c + 1]
           call == SwitchBind(cell, c, NumParams(statements[statement[w].stmt]))
       IN  \E readable \in BOOLEAN :
               IF ~readable
               THEN /\ released' = ReleasedAfterDrop(statement[w])
                    /\ Finish(w, StUnreadable)
                    /\ calls' = [calls EXCEPT ![w] = CallsOnError(calls[w])]
               ELSE IF call.fn = ""
               THEN /\ released' = ReleasedAfterDrop(statement[w])
                    /\ Finish(w, StUnsupported(cell.type))
                    /\ calls' = [calls EXCEPT ![w] = CallsOnError(calls[w])]
               ELSE /\ calls' = [calls EXCEPT ![w] = Append(calls[w], call)]
                    /\ IF c + 1 < Len(batch[i + 1])
                       THEN /\ loop' = [loop EXCEPT ![w].c = c + 1]
                            /\ UNCHANGED pc
                       ELSE IF i + 1 < Len(batch)
                       THEN /\ loop' = [loop EXCEPT ![w].i = i + 1, ![w].c = 0]
                            /\ UNCHANGED pc
                       ELSE /\ pc' = [pc EXCEPT ![w] = "put_next"]
                            /\ UNCHANGED loop
                    /\ UNCHANGED << released, search, statement, status >>
    /\ UNCHANGED << prepared_statements_, statements, handles, issued, closedOk, cmd,
                    result, reply, stream >>

\* ------------------------------------------------------------------------
\* Commands that do not use the registry
\* ------------------------------------------------------------------------

\* A handler that runs from the request to its return without touching the
\* registry: the command c ends with Status st, hands back r and has issued
\* the engine calls cs on its own statement.
OneStep(w, c, st, r, cs) ==
    /\ Accept(w, c)
    /\ Finish(w, st)
    /\ reply' = [reply EXCEPT ![w] = r]
    /\ calls' = [calls EXCEPT ![w] = cs]
    /\ UNCHANGED << registryVars, stream >>

\* GetFlightInfoStatement: the query is compiled for its schema; the ticket
\* is a TicketStatementQuery whose statement_handle is the query text.
GetFlightInfoStatement(w, sql) ==
    LET command == CommandStatementQuery(sql)
        query == command.f["query"][1]
        c == [NoCmd EXCEPT !.op = "GetFlightInfoStatement", !.sql = sql,
                           !.command = command]
    IN  IF ~Compiles(query)
        THEN OneStep(w, c, StError("sqlite3_prepare_v2 failed"), NoReply, <<>>)
        ELSE \E outcome \in {"ok", "GetSchema failed"} :
                 IF outcome = "ok"
                 THEN OneStep(w, c, StOK,
                              [NoReply EXCEPT
                                   !.ticket = PackFrom(TicketStatementQuery(query))],
                              <<>>)
                 ELSE OneStep(w, c, StError(outcome), NoReply, <<>>)

\* The tickets GetFlightInfoStatement hands out.
StatementTickets == { PackFrom(TicketStatementQuery(sql)) : sql \in Sqls }

\* DoGetStatement: the dispatcher unpacks the ticket into the
\* TicketStatementQuery the handler receives; its statement_handle is
\* compiled and read through a stream that owns this statement alone.
DoGetStatement(w, ticket) ==
    LET command == Unpack(ticket)
        sql == command.f["statement_handle"][1]
        c == [NoCmd EXCEPT !.op = "DoGetStatement", !.command = command]
    IN  IF ~Compiles(sql)
        THEN OneStep(w, c, StError("sqlite3_prepare_v2 failed"), NoReply, <<>>)
        ELSE \E outcome \in {"ok", "SqliteStatementBatchReader::Create failed"} :
                 IF outcome = "ok"
                 THEN OneStep(w, c, StOK, [NoReply EXCEPT !.sql = sql], <<>>)
                 ELSE OneStep(w, c, StError(outcome), NoReply, <<>>)

\* GetFlightInfoForCommand(descriptor, info, command, schema)
GetFlightInfoForCommand(w, op, request, command) ==
    OneStep(w, [NoCmd EXCEPT !.op = op, !.command = request], StOK,
            [NoReply EXCEPT !.ticket = TicketOf(command)], <<>>)

\* The handler is given no command: it packs one it has just constructed.
GetFlightInfoCatalogs(w) ==
    GetFlightInfoForCommand(w, "GetFlightInfoCatalogs", Msg("CommandGetCatalogs"),
                            Msg("CommandGetCatalogs"))

GetFlightInfoSchemas(w, command) ==
    GetFlightInfoForCommand(w, "GetFlightInfoSchemas", command, command)

\* ticketParsed.PackFrom(command), the schema chosen by include_schema.
GetFlightInfoTables(w, command) ==
    OneStep(w, [NoCmd EXCEPT !.op = "GetFlightInfoTables", !.command = command], StOK,
            [NoReply EXCEPT !.ticket = PackFrom(command)], <<>>)

\* The handler is given no command: it packs one it has just constructed.
GetFlightInfoTableTypes(w) ==
    GetFlightInfoForCommand(w, "GetFlightInfoTableTypes", Msg("CommandGetTableTypes"),
                            Msg("CommandGetTableTypes"))

GetFlightInfoPrimaryKeys(w, command) ==
    GetFlightInfoForCommand(w, "GetFlightInfoPrimaryKeys", command, command)

GetFlightInfoImportedKeys(w, command) ==
    GetFlightInfoForCommand(w, "GetFlightInfoImportedKeys", command, command)

GetFlightInfoExportedKeys(w, command) ==
    GetFlightInfoForCommand(w, "GetFlightInfoExportedKeys", command, command)

\* DoGetTables: the generated query is compiled and read.
DoGetTables(w, command) ==
    LET query == PrepareQueryForGetTables(command)
        c == [NoCmd EXCEPT !.op = "DoGetTables", !.command = command]
    IN  \E outcome \in {"ok", "sqlite3_prepare_v2 failed",
                        "SqliteStatementBatchReader::Create failed"} :
            IF outcome = "ok"
            THEN OneStep(w, c, StOK, [NoReply EXCEPT !.sql = query], <<>>)
            ELSE OneStep(w, c, StError(outcome), NoReply, <<>>)

\* SQL texts a client sends with CommandStatementUpdate.
SqlUpdate == "UPDATE intTable SET value = 1"

SqlInsert == "INSERT INTO intTable (value) VALUES (1)"

UpdateSqls == {SqlMalformed, SqlUpdate, SqlInsert}

\* Numbers of changed rows statement->ExecuteUpdate reports.
RecordCounts == {0, 1, 2}

\* statement->ExecuteUpdate(&record_count)
ExecuteUpdateCall(rc, value) ==
    [fn |-> "ExecuteUpdate", pos |-> 0, value |-> value, len |-> 0, lifetime |-> "",
     rc |-> rc]

\* DoPutCommandStatementUpdate: compile, execute, write the count as one
\* metadata message; the first failing call ends the command.
DoPutCommandStatementUpdate(w, sql) ==
    LET command == CommandStatementUpdate(sql)
        c == [NoCmd EXCEPT !.op = "DoPutCommandStatementUpdate", !.sql = sql,
                           !.command = command]
    IN  IF ~Compiles(command.f["query"][1])
        THEN OneStep(w, c, StError("sqlite3_prepare_v2 failed"), NoReply, <<>>)
        ELSE \E outcome \in {"ok", "ExecuteUpdate failed", "WriteMetadata failed"},
                record_count \in RecordCounts :
                 IF outcome = "ExecuteUpdate failed"
                 THEN OneStep(w, c, StError(outcome), NoReply,
                              <<ExecuteUpdateCall("SQLITE_ERROR", <<>>)>>)
                 ELSE IF outcome = "WriteMetadata failed"
                 THEN OneStep(w, c, StError(outcome), NoReply,
                              <<ExecuteUpdateCall("SQLITE_OK", <<record_count>>)>>)
                 ELSE OneStep(w, c, StOK,
                              [NoReply EXCEPT
                                   !.metadata =
                                       <<Serialize(DoPutUpdateResult(record_count))>>],
                              <<ExecuteUpdateCall("SQLITE_OK", <<record_count>>)>>)

\* GetArrowType applied to the declared type of a column.
GetArrowTypeCall(w, sqlite_type) ==
    OneStep(w, [NoCmd EXCEPT !.op = "GetArrowType", !.sqlite_type = sqlite_type], StOK,
            [NoReply EXCEPT !.type = GetArrowType(sqlite_type)], <<>>)

\* ------------------------------------------------------------------------
\* Specifications
\* ------------------------------------------------------------------------

\* SQL texts of the concurrent specification.
SpecSqls == {SqlMalformed, SqlOneParam}

\* Two workers serve prepared-statement commands concurrently.
Next ==
    \E w \in Workers :
        \/ /\ pc[w] = "idle"
           /\ \E sql \in SpecSqls : CreateCompile(w, sql, MaxCreates)
        \/ CreateFinish(w)
        \/ /\ pc[w] = "idle"
           /\ \E text \in HandleTexts : CloseLookup(w, text)
        \/ CloseErase(w)
        \/ /\ pc[w] = "idle"
           /\ \E text \in HandleTexts : GetFlightInfoLookup(w, text)
        \/ GetFlightInfoDeref(w)
        \/ GetFlightInfoFinish(w)
        \/ /\ pc[w] = "idle"
           /\ \E text \in HandleTexts : DoGetLookup(w, text)
        \/ DoGetDeref(w)
        \/ DoGetReader(w)
        \/ StreamFinish(w)
        \/ /\ pc[w] = "idle"
           /\ \E text \in HandleTexts, input \in SmallStreams : DoPutLookup(w, text, input)
        \/ DoPutDeref(w)
        \/ DoPutNext(w)
        \/ DoPutBind(w)
        \/ Return(w)

Spec == Init /\ [][Next]_vars

\* One worker at a time: statements are created, closed and bound to by
\* requests that do not overlap; the parameter streams are the rich ones.
NextBind ==
    \E w \in BindWorkers :
        \/ /\ pc[w] = "idle"
           /\ \E sql \in Sqls : CreateCompile(w, sql, 1)
        \/ CreateFinish(w)
        \/ /\ pc[w] = "idle"
           /\ \E text \in BindTexts : CloseLookup(w, text)
        \/ CloseErase(w)
        \/ /\ pc[w] = "idle"
           /\ \E text \in HandleTexts, input \in BindStreams \cup TypeStreams :
                  DoPutLookup(w, text, input)
        \/ DoPutDeref(w)
        \/ DoPutNext(w)
        \/ DoPutBind(w)
        \/ Return(w)

SpecBind == Init /\ [][NextBind]_vars

\* SQL texts of the specification of the stateless commands.
MetaSqls == ParamSqls \cup {SqlMalformed}

\* The tickets GetFlightInfoPreparedStatement hands out.
PreparedTickets ==
    { PackFrom(CommandPreparedStatementQuery(text)) : text \in HandleTexts }

\* The handle text the dispatcher takes from a ticket for DoGetPreparedStatement.
HandleOfTicket(ticket) == Unpack(ticket).f["prepared_statement_handle"]

\* One worker serves the ad hoc, metadata and update commands, the type
\* mapper, and the prepared-statement queries of one statement.
NextMeta ==
    \E w \in BindWorkers :
        \/ /\ pc[w] = "idle"
           /\ \E sql \in MetaSqls : CreateCompile(w, sql, 1)
        \/ CreateFinish(w)
        \/ /\ pc[w] = "idle"
           /\ \E text \in HandleTexts : GetFlightInfoLookup(w, text)
        \/ GetFlightInfoDeref(w)
        \/ GetFlightInfoFinish(w)
        \/ /\ pc[w] = "idle"
           /\ \E ticket \in PreparedTickets : DoGetLookup(w, HandleOfTicket(ticket))
        \/ DoGetDeref(w)
        \/ DoGetReader(w)
        \/ StreamFinish(w)
        \/ /\ pc[w] = "idle"
           /\ \E sql \in Sqls : GetFlightInfoStatement(w, sql)
        \/ /\ pc[w] = "idle"
           /\ \E ticket \in StatementTickets : DoGetStatement(w, ticket)
        \/ /\ pc[w] = "idle"
           /\ GetFlightInfoCatalogs(w)
        \/ /\ pc[w] = "idle"
           /\ \E command \in GetSchemasCommands : GetFlightInfoSchemas(w, command)
        \/ /\ pc[w] = "idle"
           /\ \E command \in GetTablesCommands : GetFlightInfoTables(w, command)
        \/ /\ pc[w] = "idle"
           /\ GetFlightInfoTableTypes(w)
        \/ /\ pc[w] = "idle"
           /\ \E command \in KeysCommands("CommandGetPrimaryKeys") :
                  GetFlightInfoPrimaryKeys(w, command)
        \/ /\ pc[w] = "idle"
           /\ \E command \in KeysCommands("CommandGetImportedKeys") :
                  GetFlightInfoImportedKeys(w, command)
        \/ /\ pc[w] = "idle"
           /\ \E command \in KeysCommands("CommandGetExportedKeys") :
                  GetFlightInfoExportedKeys(w, command)
        \/ /\ pc[w] = "idle"
           /\ \E command \in GetTablesCommands : DoGetTables(w, command)
        \/ /\ pc[w] = "idle"
           /\ \E sql \in UpdateSqls : DoPutCommandStatementUpdate(w, sql)
        \/ /\ pc[w] = "idle"
           /\ \E sqlite_type \in SqliteTypes : GetArrowTypeCall(w, sqlite_type)
        \/ Return(w)

SpecMeta == Init /\ [][NextMeta]_vars

\* Requests of the stateless commands in the specification of the registry.
SeqTablesCommand == CommandGetTables(Present("c"), Absent, Absent, <<"table">>, FALSE)

SeqKeysCommand(type) == CommandGetKeys(type, Absent, Absent, "intTable")

\* One worker at a time, every command of the server: as many statements
\* as there are uuids are created, looked up and closed.
NextSeq ==
    \E w \in BindWorkers :
        \/ /\ pc[w] = "idle"
           /\ \E sql \in SpecSqls : CreateCompile(w, sql, Cardinality(Uuids))
        \/ CreateFinish(w)
        \/ /\ pc[w] = "idle"
           /\ \E text \in HandleTexts : CloseLookup(w, text)
        \/ CloseErase(w)
        \/ /\ pc[w] = "idle"
           /\ \E text \in HandleTexts : GetFlightInfoLookup(w, text)
        \/ GetFlightInfoDeref(w)
        \/ GetFlightInfoFinish(w)
        \/ /\ pc[w] = "idle"
           /\ \E text \in HandleTexts : DoGetLookup(w, text)
        \/ DoGetDeref(w)
        \/ DoGetReader(w)
        \/ StreamFinish(w)
        \/ /\ pc[w] = "idle"
           /\ \E text \in HandleTexts, input \in SmallStreams : DoPutLookup(w, text, input)
        \/ DoPutDeref(w)
        \/ DoPutNext(w)
        \/ DoPutBind(w)
        \/ /\ pc[w] = "idle"
           /\ GetFlightInfoStatement(w, SqlNoParam)
        \/ /\ pc[w] = "idle"
           /\ DoGetStatement(w, PackFrom(TicketStatementQuery(SqlNoParam)))
        \/ /\ pc[w] = "idle"
           /\ GetFlightInfoCatalogs(w)
        \/ /\ pc[w] = "idle"
           /\ GetFlightInfoSchemas(w, CommandGetSchemas(Absent, Absent))
        \/ /\ pc[w] = "idle"
           /\ GetFlightInfoTables(w, SeqTablesCommand)
        \/ /\ pc[w] = "idle"
           /\ GetFlightInfoTableTypes(w)
        \/ /\ pc[w] = "idle"
           /\ GetFlightInfoPrimaryKeys(w, SeqKeysCommand("CommandGetPrimaryKeys"))
        \/ /\ pc[w] = "idle"
           /\ GetFlightInfoImportedKeys(w, SeqKeysCommand("CommandGetImportedKeys"))
        \/ /\ pc[w] = "idle"
           /\ GetFlightInfoExportedKeys(w, SeqKeysCommand("CommandGetExportedKeys"))
        \/ /\ pc[w] = "idle"
           /\ DoGetTables(w, SeqTablesCommand)
        \/ /\ pc[w] = "idle"
           /\ \E sql \in UpdateSqls : DoPutCommandStatementUpdate(w, sql)
        \/ Return(w)

SpecSeq == Init /\ [][NextSeq]_vars


\* ------------------------------------------------------------------------
\* Properties
\* ------------------------------------------------------------------------

\* The statement object the generator's uuid u was registered with.
StmtOf(u) == (CHOOSE h \in handles : h.uuid = u).stmt

LookupOps == {"GetFlightInfo", "DoGet", "DoPut"}

HandleOps == LookupOps \cup {"Close"}

\* Worker w has finished a command that named a handle.
DoneHandle(w) == pc[w] = "done" /\ cmd[w].op \in HandleOps

\* C1: a handle that Create returned is found by every lookup command until
\* a Close of it has succeeded; a command that starts after a Close of the
\* handle has returned OK ends with "Prepared statement not found", be it a
\* lookup or another Close; a Close of an issued handle fails only when the
\* handle has been closed.
C1_HandleLifecycle ==
    \A w \in Workers :
        DoneHandle(w) /\ WellFormed(cmd[w].text) =>
            /\ cmd[w].closedBefore => IsNotFound(status[w])
            /\ (cmd[w].op \in LookupOps /\ cmd[w].issuedBefore
                    /\ cmd[w].uuid \notin closedOk) => ~IsNotFound(status[w])
            /\ (cmd[w].op = "Close" /\ cmd[w].issuedBefore /\ IsNotFound(status[w]))
                   => cmd[w].uuid \in closedOk

\* A lookup that started after the Close of its handle and was refused.
C1_Witness ==
    \E w \in Workers :
        /\ DoneHandle(w)
        /\ cmd[w].op \in LookupOps
        /\ cmd[w].issuedBefore
        /\ cmd[w].closedBefore
        /\ IsNotFound(status[w])

CloseOk(w) ==
    /\ pc[w] = "done"
    /\ cmd[w].op = "Close"
    /\ status[w] = StOK

\* C2: of two workers racing on one handle the loser is told "not found":
\* two Close commands of the same handle never both return OK, and no
\* handler holds an iterator to a node that has been erased.
C2_RaceResolved ==
    /\ \A w1, w2 \in Workers :
           (w1 # w2 /\ CloseOk(w1) /\ CloseOk(w2)) => cmd[w1].uuid # cmd[w2].uuid
    /\ \A w \in Workers :
           pc[w] \in {"info_deref", "get_deref", "put_deref"}
               => search[w].uuid \in DOMAIN prepared_statements_

\* Worker w is binding to, or building the result reader of, a statement.
InUse(w) == pc[w] \in {"put_next", "put_bind", "get_reader"}

\* C3: no two workers are at the same time inside parameter binding or
\* result execution on the same compiled statement.
C3_ExclusiveUse ==
    \A w1, w2 \in Workers :
        (w1 # w2 /\ InUse(w1) /\ InUse(w2)) => statement[w1].stmt # statement[w2].stmt

\* C4: a command whose handle text is no uuid ends with the status
\* "Prepared statement not found", returned to the caller.
C4_MalformedHandleNotFound ==
    \A w \in Workers :
        (DoneHandle(w) /\ ~WellFormed(cmd[w].text))
            => (Returned(status[w]) /\ IsNotFound(status[w]))

\* C5 as stated: once Close of a handle that Create returned has returned
\* OK, its compiled statement is released, whoever else still uses it.
C5_ReleasedOnClose ==
    \A u \in closedOk \cap issued : StmtOf(u) \in released

\* C5 as amended: a compiled statement is released exactly when its last
\* owner (the registry entry, a handler's local copy, a result stream) has
\* let go of it, and after a successful Close the registry is not an owner.
C5_ReleasedWhenLastOwnerGone ==
    /\ \A s \in 1..Len(statements) : (s \in released) <=> (RefCount(s) = 0)
    /\ \A u \in closedOk : u \notin DOMAIN prepared_statements_

\* A result stream keeps the statement of a closed handle alive.
C5_Witness ==
    \E u \in closedOk, w \in Workers :
        /\ stream[w] = [stmt |-> StmtOf(u), counted |-> TRUE]
        /\ StmtOf(u) \notin released
        /\ u \notin DOMAIN prepared_statements_

\* C6: a Create that returns an error leaves no registry entry for the
\* attempt and has released the statement it compiled.
C6_CreateErrorReleases ==
    \A w \in Workers :
        (pc[w] = "done" /\ cmd[w].op = "Create" /\ status[w].code = "Error")
            => /\ cmd[w].uuid \notin DOMAIN prepared_statements_
               /\ cmd[w].uuid # <<>> => StmtOf(cmd[w].uuid) \in released

\* ------------------------------------------------------------------------
\* Properties of the binder
\* ------------------------------------------------------------------------

RECURSIVE Concat(_)
Concat(seqs) == IF seqs = <<>> THEN <<>> ELSE seqs[1] \o Concat(Tail(seqs))

\* The rows of a stream, batch boundaries forgotten.
StreamRows(input) == Concat(input.batches)

\* The cells of a stream in row-major order, and the column of each.
StreamCells(input) == Concat(StreamRows(input))

StreamColumns(input) ==
    Concat([r \in 1..Len(StreamRows(input)) |->
                [k \in 1..Len(StreamRows(input)[r]) |-> k - 1]])

\* Worker w is inside the binding loops, or has left them.
Binding(w) ==
    /\ cmd[w].op = "DoPut"
    /\ \/ pc[w] \in {"put_next", "put_bind"}
       \/ pc[w] = "done" /\ status[w] \notin {StNotFound, StThrown, StCrash}

BoundBytes(cell) ==
    IF cell.type = "string" THEN SubSeq(cell.value, 1, StrLen(cell.value)) ELSE cell.value

\* C7: the bind calls of a binding command are, in this order, one call per
\* cell of the row-major concatenation of all rows of all batches, the cell
\* of column c at position c + 1; when the command returns OK every cell has
\* been bound.  The calls depend on the rows only, not on how the rows are
\* cut into batches.
C7_RowMajorBinding ==
    \A w \in Workers :
        Binding(w) =>
            LET cells == StreamCells(cmd[w].input)
                cols == StreamColumns(cmd[w].input)
            IN  /\ Len(calls[w]) <= Len(cells)
                /\ \A k \in 1..Len(calls[w]) :
                       /\ calls[w][k].pos = cols[k] + 1
                       /\ calls[w][k].value = BoundBytes(cells[k])
                /\ (pc[w] = "done" /\ status[w] = StOK) => Len(calls[w]) = Len(cells)

\* Two batches of one two-column row each have been bound.
C7_Witness ==
    \E w \in Workers :
        /\ Binding(w)
        /\ pc[w] = "done"
        /\ status[w] = StOK
        /\ Len(cmd[w].input.batches) >= 2
        /\ Len(calls[w]) = 4
        /\ calls[w][2].pos = 2
        /\ calls[w][3].pos = 1

\* The native bind call the binder is specified to issue for a cell type.
NativeBind(t) ==
    CASE t = "string" -> "sqlite3_bind_text"
      [] t = "int64" -> "sqlite3_bind_int64"
      [] t = "double" -> "sqlite3_bind_double"
      [] t = "binary" -> "sqlite3_bind_blob"
      [] OTHER -> ""

\* The stream of w is one batch of one row of one cell.
SingleCell(w) ==
    /\ Len(cmd[w].input.batches) = 1
    /\ Len(cmd[w].input.batches[1]) = 1
    /\ Len(cmd[w].input.batches[1][1]) = 1
    /\ ~cmd[w].input.fail

\* C8: a cell that was read and is of type string, int64, double (64-bit
\* float) or binary is accepted and bound by its native call: text and blob
\* with the transient lifetime, the blob with its exact length.
C8_FourTypesAccepted ==
    \A w \in Workers :
        (Binding(w) /\ pc[w] = "done" /\ SingleCell(w) /\ status[w] # StUnreadable
             /\ cmd[w].input.batches[1][1][1].type \in AcceptedTypes)
            => LET cell == cmd[w].input.batches[1][1][1]
               IN  /\ status[w] = StOK
                   /\ Len(calls[w]) = 1
                   /\ calls[w][1].fn = NativeBind(cell.type)
                   /\ cell.type \in {"string", "binary"}
                          => calls[w][1].lifetime = "SQLITE_TRANSIENT"
                   /\ cell.type = "binary" => calls[w][1].len = Len(cell.value)

\* C9: when the stream holds a cell of type bool, int32, list or map, no
\* bind call is issued for that cell or for a cell after it, and the command
\* fails: unless a cell could not be read, it ends with the Invalid status
\* "Received unsupported data type: " naming the type of the cell at which
\* binding stopped.
C9_UnsupportedRejected ==
    \A w \in Workers :
        Binding(w) =>
            LET cells == StreamCells(cmd[w].input)
            IN  \A k \in 1..Len(cells) :
                    cells[k].type \in RejectedTypes =>
                        /\ Len(calls[w]) < k
                        /\ (pc[w] = "done" /\ status[w] # StUnreadable) =>
                               /\ status[w].code = "Invalid"
                               /\ status[w] = StUnsupported(cells[Len(calls[w]) + 1].type)
                               /\ Len(calls[w]) + 1 = k => status[w].arg = cells[k].type

\* A bool cell ended a command whose stream holds a row after it.
C9_Witness ==
    \E w \in Workers :
        /\ Binding(w)
        /\ pc[w] = "done"
        /\ status[w] = StUnsupported("bool")
        /\ StreamCells(cmd[w].input)[Len(calls[w]) + 1].type = "bool"
        /\ Len(calls[w]) + 1 < Len(StreamCells(cmd[w].input))

BindFns ==
    {"sqlite3_bind_int64", "sqlite3_bind_double", "sqlite3_bind_text", "sqlite3_bind_blob"}

\* C10: a binding command issues bind calls only; at the end of the input it
\* returns OK, having executed nothing and handed back no result.
C10_BindingNeverExecutes ==
    \A w \in Workers :
        Binding(w) =>
            /\ \A k \in 1..Len(calls[w]) : calls[w][k].fn \in BindFns
            /\ result[w] = <<>>
            /\ stream[w] = NoStmt
            /\ (pc[w] = "done" /\ ~cmd[w].input.fail
                    /\ Len(calls[w]) = Len(StreamCells(cmd[w].input))) => status[w] = StOK

\* A command that bound two rows has returned OK at the end of its input.
C10_Witness ==
    \E w \in Workers :
        /\ Binding(w)
        /\ pc[w] = "done"
        /\ status[w] = StOK
        /\ Len(calls[w]) >= 2
        /\ \A k \in 1..Len(calls[w]) : calls[w][k].fn \in BindFns

\* The number of cells in the batches of a stream before its b-th batch.
CellsBefore(input, b) == Len(Concat(Concat(SubSeq(input.batches, 1, b - 1))))

\* C11 as stated: once a batch with zero rows has been read, binding ends:
\* the reader is not read again and no cell of a batch after the empty one
\* is bound.
C11_EmptyBatchEndsInput ==
    \A w \in Workers :
        Binding(w) =>
            \A b \in 1..Len(cmd[w].input.batches) :
                Len(cmd[w].input.batches[b]) = 0 =>
                    /\ loop[w].b <= b
                    /\ Len(calls[w]) <= CellsBefore(cmd[w].input, b)

\* C11: only an absent batch ends the input.  A batch with zero rows adds
\* no bind call and does not end binding: whenever the reader is about to be
\* read, every cell of every batch read so far has been bound, and a command
\* that returns OK or the reader's error has bound every cell of every
\* batch, those after an empty batch included.
C11_OnlyAbsentBatchEnds ==
    \A w \in Workers :
        Binding(w) =>
            /\ pc[w] = "put_next" =>
                   Len(calls[w]) = CellsBefore(cmd[w].input, loop[w].b + 1)
            /\ (pc[w] = "done" /\ status[w] \in {StOK, StError("reader->Next failed")}) =>
                   Len(calls[w]) = Len(StreamCells(cmd[w].input))

\* A command has returned OK after binding a row that came after a batch
\* with zero rows.
C11_Witness ==
    \E w \in Workers :
        /\ Binding(w)
        /\ pc[w] = "done"
        /\ status[w] = StOK
        /\ \E b \in 1..Len(cmd[w].input.batches) :
               /\ Len(cmd[w].input.batches[b]) = 0
               /\ Len(calls[w]) > CellsBefore(cmd[w].input, b)

\* C12: when the engine rejects a bind call of a binding command, the
\* command does not return OK.
C12_BindFailureReturned ==
    \A w \in Workers :
        (Binding(w) /\ pc[w] = "done"
             /\ \E k \in 1..Len(calls[w]) : calls[w][k].rc # "SQLITE_OK")
            => status[w] # StOK


\* Worker w has returned OK from the command op.
DoneOk(w, op) == pc[w] = "done" /\ cmd[w].op = op /\ status[w] = StOK

\* C13 as stated: for an ad hoc and for a prepared query the ticket of the
\* FlightInfo is the serialized command the FlightInfo was asked with.
C13_TicketIsCommand ==
    \A w \in Workers :
        (DoneOk(w, "GetFlightInfoStatement") \/ DoneOk(w, "GetFlightInfo")) =>
            reply[w].ticket = PackFrom(cmd[w].command)

\* C13: the ticket of a prepared query is the serialized
\* CommandPreparedStatementQuery itself; the ticket of an ad hoc query is a
\* message of another type, TicketStatementQuery, whose statement_handle is
\* the SQL text of the command.  Presented to the fetch-results call, the
\* first names the same handle and the second compiles the same SQL text.
C13_TicketReplaysQuery ==
    \A w \in Workers :
        /\ DoneOk(w, "GetFlightInfo") =>
               /\ reply[w].ticket.type_url = "CommandPreparedStatementQuery"
               /\ Unpack(reply[w].ticket) = cmd[w].command
               /\ reply[w].ticket \in PreparedTickets
               /\ HandleOfTicket(reply[w].ticket) = cmd[w].text
        /\ DoneOk(w, "GetFlightInfoStatement") =>
               /\ reply[w].ticket.type_url = "TicketStatementQuery"
               /\ reply[w].ticket \in StatementTickets
               /\ Unpack(reply[w].ticket).f["statement_handle"] = <<cmd[w].sql>>
               /\ cmd[w].command.f["query"] = <<cmd[w].sql>>
        /\ DoneOk(w, "DoGetStatement") =>
               \A sql \in Sqls :
                   cmd[w].command = Unpack(PackFrom(TicketStatementQuery(sql)))
                       => reply[w].sql = sql
        /\ DoneOk(w, "DoGet") =>
               /\ cmd[w].command = CommandPreparedStatementQuery(cmd[w].text)
               /\ cmd[w].uuid = LexicalCast(cmd[w].text).uuid
               /\ stream[w] # NoStmt => stream[w].stmt = StmtOf(cmd[w].uuid)

\* The ticket of an ad hoc query has been handed out.
C13_Witness ==
    \E w \in Workers :
        /\ DoneOk(w, "GetFlightInfoStatement")
        /\ cmd[w].command = CommandStatementQuery(SqlOneParam)
        /\ reply[w].ticket = PackFrom(TicketStatementQuery(SqlOneParam))

\* The FlightInfo commands of the metadata requests.
MetadataInfoOps ==
    {"GetFlightInfoCatalogs", "GetFlightInfoSchemas", "GetFlightInfoTables",
     "GetFlightInfoTableTypes", "GetFlightInfoPrimaryKeys", "GetFlightInfoImportedKeys",
     "GetFlightInfoExportedKeys"}

\* C14 as stated: the ticket of every metadata command is the packed empty
\* message of the command's type, whatever filters the request carries.
C14_TicketIsEmptyMarker ==
    \A w \in Workers :
        (pc[w] = "done" /\ cmd[w].op \in MetadataInfoOps /\ status[w] = StOK) =>
            reply[w].ticket = PackFrom(Msg(cmd[w].command.type))

\* C14: the ticket of a metadata command is the packed request: of the
\* command's type and, unpacked, the request with every filter it carries.
\* Only GetCatalogs and GetTableTypes, which have no argument, get a ticket
\* without content.
C14_TicketCarriesFilters ==
    \A w \in Workers :
        (pc[w] = "done" /\ cmd[w].op \in MetadataInfoOps) =>
            /\ status[w] = StOK
            /\ reply[w].ticket.type_url = cmd[w].command.type
            /\ Unpack(reply[w].ticket) = cmd[w].command
            /\ cmd[w].op \in {"GetFlightInfoCatalogs", "GetFlightInfoTableTypes"}
                   => reply[w].ticket.value = <<>>
            /\ (reply[w].ticket.value = <<>>) = (cmd[w].command.f = EmptyFields)

\* A GetTables request with a catalog filter got a ticket that holds the filter.
C14_Witness ==
    \E w \in Workers :
        /\ DoneOk(w, "GetFlightInfoTables")
        /\ cmd[w].command = CommandGetTables(Present("c"), Absent, Absent, <<"table">>, TRUE)
        /\ Unpack(reply[w].ticket).f["catalog"] = <<"c">>
        /\ reply[w].ticket # PackFrom(Msg("CommandGetTables"))

Lowered(chars) == [k \in 1..Len(chars) |-> ToLower(chars[k])]

Prefix(chars, n) == SubSeq(chars, 1, IF Len(chars) < n THEN Len(chars) ELSE n)

\* C16: the type mapper always returns, and returns: null for an absent
\* name; int64 exactly for int and integer; float64 exactly for real;
\* binary exactly for blob; utf8 exactly for text and for the names that
\* start with char or varchar; null for every other name, letters compared
\* without regard to case.
C16_TypeMapper ==
    \A w \in Workers :
        (pc[w] = "done" /\ cmd[w].op = "GetArrowType") =>
            LET t == cmd[w].sqlite_type
                low == Lowered(t.value)
                r == reply[w].type
            IN  /\ status[w] = StOK
                /\ r \in {"null", "int64", "float64", "binary", "utf8"}
                /\ ~t.has => r = "null"
                /\ t.has =>
                       /\ (r = "int64") =
                              (low \in {<<"i", "n", "t">>,
                                        <<"i", "n", "t", "e", "g", "e", "r">>})
                       /\ (r = "float64") = (low = <<"r", "e", "a", "l">>)
                       /\ (r = "binary") = (low = <<"b", "l", "o", "b">>)
                       /\ (r = "utf8") =
                              \/ low = <<"t", "e", "x", "t">>
                              \/ Prefix(low, 4) = <<"c", "h", "a", "r">>
                              \/ Prefix(low, 7) = <<"v", "a", "r", "c", "h", "a", "r">>
                /\ t = Name(<<"u", "n", "k", "n", "o", "w", "n", "_", "x", "y", "z">>)
                       => r = "null"
                /\ t = Name(<<"I", "N", "T", "E", "G", "E", "R">>) => r = "int64"

\* A mixed-case name that starts with varchar has been mapped to utf8.
C16_Witness ==
    \E w \in Workers :
        /\ pc[w] = "done"
        /\ cmd[w].op = "GetArrowType"
        /\ cmd[w].sqlite_type =
               Name(<<"V", "a", "r", "C", "h", "a", "r", "(", "2", "0", ")">>)
        /\ reply[w].type = "utf8"

RECURSIVE JoinWith(_, _)
\* The texts of a sequence, separated by sep.
JoinWith(texts, sep) ==
    IF texts = <<>> THEN ""
    ELSE IF Len(texts) = 1 THEN texts[1]
    ELSE texts[1] \o sep \o JoinWith(Tail(texts), sep)

\* The filter clause of an optional field of a command.
Clause(command, name, before) ==
    IF name \in DOMAIN command.f THEN before \o command.f[name][1] \o "'" ELSE ""

\* The text C17 describes for a GetTables command.
TablesQueryText(command) ==
    LET types == IF "table_types" \in DOMAIN command.f
                 THEN command.f["table_types"] ELSE <<>>
    IN  TablesBaseQuery
        \o Clause(command, "catalog", " and catalog_name='")
        \o Clause(command, "schema_filter_pattern", " and schema_name LIKE '")
        \o Clause(command, "table_name_filter_pattern", " and table_name LIKE '")
        \o (IF types = <<>> THEN ""
            ELSE " and table_type IN ("
                 \o JoinWith([k \in 1..Len(types) |-> "'" \o types[k] \o "'"], ",")
                 \o ")")
        \o " order by table_name"

\* The request of the example of C17.
ExampleTablesCommand ==
    CommandGetTables(Present("c"), Absent, Absent, <<"table", "view">>, FALSE)

\* C17: the SQL text DoGetTables compiles is the base query, then, for the
\* filters that are present and in this order, the equality filter on
\* catalog_name, the LIKE filter on schema_name, the LIKE filter on
\* table_name and, for a non-empty list of table types, table_type IN (...)
\* with every requested type quoted, separated by commas and in request
\* order, then " order by table_name".
C17_TablesQuery ==
    \A w \in Workers :
        DoneOk(w, "DoGetTables") =>
            /\ reply[w].sql = TablesQueryText(cmd[w].command)
            /\ cmd[w].command = ExampleTablesCommand =>
                   reply[w].sql =
                       TablesBaseQuery
                       \o " and catalog_name='c' and table_type IN ('table','view') order by table_name"
            /\ cmd[w].command = Msg("CommandGetTables") =>
                   reply[w].sql = TablesBaseQuery \o " order by table_name"

\* The query of the example request has been compiled.
C17_Witness ==
    \E w \in Workers :
        /\ DoneOk(w, "DoGetTables")
        /\ cmd[w].command = ExampleTablesCommand
        /\ reply[w].sql # TablesBaseQuery \o " order by table_name"

\* C18: a StatementUpdate that returns OK has executed once and has written
\* exactly one metadata message, which holds the record count the execution
\* returned; it hands back no ticket, handle or query result.  When
\* compiling or executing fails the command returns the error and writes
\* no metadata.
C18_UpdateCount ==
    \A w \in Workers :
        (pc[w] = "done" /\ cmd[w].op = "DoPutCommandStatementUpdate") =>
            /\ status[w] = StOK =>
                   /\ Len(calls[w]) = 1
                   /\ calls[w][1].fn = "ExecuteUpdate"
                   /\ calls[w][1].rc = "SQLITE_OK"
                   /\ Len(reply[w].metadata) = 1
                   /\ RecordCountOf(reply[w].metadata[1]) = calls[w][1].value[1]
                   /\ reply[w].ticket = NoAny
                   /\ reply[w].sql = ""
                   /\ result[w] = <<>>
            /\ ~Compiles(cmd[w].sql) => status[w].code = "Error" /\ calls[w] = <<>>
            /\ (calls[w] # <<>> /\ calls[w][1].rc # "SQLITE_OK") => status[w].code = "Error"
            /\ status[w] # StOK => reply[w].metadata = <<>>

\* An update that changed two rows has reported the count.
C18_Witness ==
    \E w \in Workers :
        /\ DoneOk(w, "DoPutCommandStatementUpdate")
        /\ calls[w][1].value = <<2>>
        /\ RecordCountOf(reply[w].metadata[1]) = 2

\* C19: a step changes the registry only when it is the insertion of a
\* Create, which adds the one new handle, or the erase of a Close that
\* returns OK, which removes the handle of that Close; every other step, of
\* whatever command, leaves the map as it is, no step changes the statement
\* of a handle that stays, and the live handles are always the handles
\* created and not yet closed with success.
C19_RegistryFrame ==
    [][ LET before == DOMAIN prepared_statements_
            after == DOMAIN prepared_statements_'
        IN  /\ \A u \in before \cap after :
                   prepared_statements_'[u] = prepared_statements_[u]
            /\ prepared_statements_' # prepared_statements_ =>
                   \E w \in Workers :
                       \/ /\ pc[w] = "idle"
                          /\ cmd'[w].op = "Create"
                          /\ cmd'[w].uuid \notin before
                          /\ after = before \cup {cmd'[w].uuid}
                       \/ /\ pc[w] = "close_erase"
                          /\ cmd[w].op = "Close"
                          /\ status'[w] = StOK
                          /\ cmd[w].uuid \in before
                          /\ after = before \ {cmd[w].uuid}
            /\ after = { h.uuid : h \in handles' } \ closedOk'
      ]_vars

\* A Close has returned OK and the other statement is still registered.
C19_Witness ==
    \E w \in Workers :
        /\ DoneOk(w, "Close")
        /\ cmd[w].uuid \notin DOMAIN prepared_statements_
        /\ \E u \in DOMAIN prepared_statements_ : u # cmd[w].uuid

\* The statement registered under the handle of the command of w.
Registered(w) == statements[prepared_statements_[cmd[w].uuid]]

\* C20: when a binding command fails inside or after the binding loops, the
\* handle is still registered and the engine calls of the command are the
\* bind calls of the cells before the failure and nothing else: every
\* parameter one of those cells was bound to holds the value of the last
\* such cell, not the value it had before the command.
C20_PartialBindingStays ==
    \A w \in Workers :
        (Binding(w) /\ pc[w] = "done" /\ status[w] # StOK) =>
            LET cells == StreamCells(cmd[w].input)
                cols == StreamColumns(cmd[w].input)
                n == Len(calls[w])
            IN  /\ cmd[w].uuid \in DOMAIN prepared_statements_
                /\ status[w].msg = "Received unsupported data type: " =>
                       cells[n + 1].type = status[w].arg
                /\ status[w] = StError("reader->Next failed") => n = Len(cells)
                /\ LET after == BindAll(NoBindings(Registered(w)), calls[w])
                   IN  \A p \in DOMAIN after :
                           LET ks == { k \in 1..n : cols[k] + 1 = p }
                           IN  ks # {} =>
                                   after[p] =
                                       [set |-> TRUE,
                                        value |-> BoundBytes(
                                            cells[CHOOSE k \in ks : \A j \in ks : j <= k])]

\* A command failed at a bool cell after a bind the engine had accepted.
C20_Witness ==
    \E w \in Workers :
        /\ Binding(w)
        /\ pc[w] = "done"
        /\ status[w] = StUnsupported("bool")
        /\ Len(calls[w]) >= 1
        /\ calls[w][1].rc = "SQLITE_OK"
        /\ cmd[w].uuid \in DOMAIN prepared_statements_

====
